---- MODULE Spec2Model ----
(***************************************************************************)
(* Ledger state machines of contracts/ConfidentialPerpDEX.sol (the FHE     *)
(* contract, fields prefixed Dex_) and of ConfidentialPerpDEXMock.sol (the *)
(* plaintext mock, fields prefixed Mock_).  Both deployments are driven by *)
(* the same stream of transactions, each in two runs that differ only in   *)
(* the plaintexts under the ciphertexts.  Every public function is an      *)
(* operator from (state, msg.sender, block.timestamp, arguments) to a      *)
(* Result; a revert returns the state it was given.                        *)
(***************************************************************************)
EXTENDS Integers, Sequences, FiniteSets, TLC

\* ------------------------------------------------------------------ bounds
\* euint64 is modelled EuintBits wide: TLC integers are 32-bit, so the width
\* of the wrapping arithmetic is scaled down, the arithmetic is not changed.
EuintBits == 26
\* block.timestamp takes the values 1..MaxTime
MaxTime == 2
\* transactions sent to the two deployments in one behaviour
MaxCalls == 4
\* start() loops of the liquidation bot that exist at one time
MaxLoops == 2

Modulus == 2 ^ EuintBits

\* --------------------------------------------------------------- universe
Accounts == {"admin", "alice", "bob"}
Deployer == "admin"

\* An encrypted input: h is the handle TFHE.asEuint64 derives from the
\* ciphertext bytes, v the plaintext it encrypts.
Ct(h, v) == [h |-> h, v |-> v]

\* ------------------------------------------------------- TFHE (euint64)
TFHE_asEuint64(x) == x % Modulus

TFHE_add(a, b) == (a + b) % Modulus

TFHE_sub(a, b) == (a + Modulus - b) % Modulus

RECURSIVE MulMod(_, _)
MulMod(a, b) ==
  IF b = 0 THEN 0
  ELSE LET h == MulMod(a, b \div 2)
           d == (2 * h) % Modulus
       IN  IF b % 2 = 1 THEN (d + a) % Modulus ELSE d

TFHE_mul(a, b) ==
  IF a = 0 \/ b = 0 THEN 0
  ELSE IF (a < 32768 /\ b < 32768) THEN (a * b) % Modulus
  ELSE IF a < b THEN MulMod(b, a) ELSE MulMod(a, b)

\* division by a plaintext divisor (divisor >= 1)
TFHE_div(a, b) == a \div b

TFHE_lt(a, b) == a < b
TFHE_gt(a, b) == a > b
TFHE_ge(a, b) == a >= b
TFHE_le(a, b) == a <= b

\* ---------------------------------------------------------------- results
Result(st, ok, err, ret, events) ==
  [st |-> st, ok |-> ok, err |-> err, ret |-> ret, events |-> events]

Ok(st, ret, events) == Result(st, TRUE, "", ret, events)

Revert(st, msg) == Result(st, FALSE, msg, <<>>, <<>>)

\* keccak256(abi.encodePacked(msg.sender, block.timestamp, size)): injective
PositionId(sender, timestamp, size) == <<sender, timestamp, size>>

\* storage default of a mapping slot that was never written
ZeroPosition ==
  [size |-> 0, entryPrice |-> 0, collateral |-> 0, leverage |-> 0,
   isLong |-> FALSE, timestamp |-> 0, isOpen |-> FALSE,
   stopLoss |-> 0, takeProfit |-> 0]

PosAt(positions, trader, positionId) ==
  IF <<trader, positionId>> \in DOMAIN positions
    THEN positions[<<trader, positionId>>]
    ELSE ZeroPosition

PosPut(positions, trader, positionId, rec) ==
  [k \in (DOMAIN positions) \cup {<<trader, positionId>>} |->
     IF k = <<trader, positionId>> THEN rec ELSE positions[k]]

\* ------------------------------------------------ ConfidentialPerpDEX (FHE)
\* A variant of the constructor that leaves the oracle price at the storage
\* default; the property C23 must tell it apart from the contract's.
Dex_constructor_NoPrice(sender) ==
  [admin |-> sender,
   liquidationThreshold |-> TFHE_asEuint64(500),
   fundingRate |-> TFHE_asEuint64(10),
   encryptedOraclePrice |-> 0,
   encryptedBalances |-> [a \in Accounts |-> 0],
   initialized |-> {},
   positions |-> <<>>,
   userPositionIds |-> [a \in Accounts |-> <<>>],
   orderBook |-> <<>>]

Dex_constructor(sender) ==
  [admin |-> sender,
   liquidationThreshold |-> TFHE_asEuint64(500),
   fundingRate |-> TFHE_asEuint64(10),
   encryptedOraclePrice |-> TFHE_asEuint64(50000 * 100),
   encryptedBalances |-> [a \in Accounts |-> 0],
   initialized |-> {},
   positions |-> <<>>,
   userPositionIds |-> [a \in Accounts |-> <<>>],
   orderBook |-> <<>>]

Dex_creditBalance(st, who, amount) ==
  [st EXCEPT !.encryptedBalances[who] = TFHE_add(@, amount),
             !.initialized = @ \cup {who}]

Dex_deposit(st, sender, encryptedAmount) ==
  LET amount == TFHE_asEuint64(encryptedAmount.v)
      st1 == IF sender \in st.initialized
               THEN [st EXCEPT !.encryptedBalances[sender] = TFHE_add(@, amount)]
               ELSE [st EXCEPT !.encryptedBalances[sender] = amount,
                               !.initialized = @ \cup {sender}]
  IN  Ok(st1, <<>>, << <<"BalanceDeposited", sender, 0>> >>)

Dex_getBalance(st, sender) == st.encryptedBalances[sender]

Dex_openPosition(st, sender, now, encSize, leverage, isLong, encStopLoss, encTakeProfit) ==
  LET size == TFHE_asEuint64(encSize.v)
      stopLoss == TFHE_asEuint64(encStopLoss.v)
      takeProfit == TFHE_asEuint64(encTakeProfit.v)
      positionValue == TFHE_mul(size, st.encryptedOraclePrice)
      requiredCollateral == TFHE_div(positionValue, leverage)
      userBalance == st.encryptedBalances[sender]
      positionId == PositionId(sender, now, encSize.h)
      rec == [size |-> size, entryPrice |-> st.encryptedOraclePrice,
              collateral |-> requiredCollateral, leverage |-> leverage,
              isLong |-> isLong, timestamp |-> now, isOpen |-> TRUE,
              stopLoss |-> stopLoss, takeProfit |-> takeProfit]
      st1 == [st EXCEPT
                !.encryptedBalances[sender] = TFHE_sub(userBalance, requiredCollateral),
                !.initialized = @ \cup {sender},
                !.positions = PosPut(@, sender, positionId, rec),
                !.userPositionIds[sender] = Append(@, positionId)]
  IN  Ok(st1, <<positionId>>, << <<"PositionOpened", sender, positionId, isLong>> >>)

\* A variant of calculatePnL that marks the position to the oracle price
\* (a read that writes); the property C18 must tell it apart from the
\* contract's.
Dex_calculatePnL_MarksToMarket(st, trader, positionId) ==
  LET pos == PosAt(st.positions, trader, positionId)
      priceDiff == IF pos.isLong
                     THEN TFHE_sub(st.encryptedOraclePrice, pos.entryPrice)
                     ELSE TFHE_sub(pos.entryPrice, st.encryptedOraclePrice)
      st1 == [st EXCEPT !.positions[<<trader, positionId>>].entryPrice =
                          st.encryptedOraclePrice]
  IN  IF ~pos.isOpen THEN Revert(st, "Position not open")
      ELSE Ok(st1, <<TFHE_mul(priceDiff, pos.size)>>, <<>>)

Dex_calculatePnL(st, trader, positionId) ==
  LET pos == PosAt(st.positions, trader, positionId)
      priceDiff == IF pos.isLong
                     THEN TFHE_sub(st.encryptedOraclePrice, pos.entryPrice)
                     ELSE TFHE_sub(pos.entryPrice, st.encryptedOraclePrice)
  IN  IF ~pos.isOpen THEN Revert(st, "Position not open")
      ELSE Ok(st, <<TFHE_mul(priceDiff, pos.size)>>, <<>>)

\* A variant of closePosition that finds the position by its id under any
\* trader and pays that trader; the property C30 must tell it apart from the
\* contract's.
Dex_closePosition_AnyCaller(st, sender, positionId) ==
  LET keys == {k \in DOMAIN st.positions : k[2] = positionId /\ st.positions[k].isOpen}
      key == CHOOSE k \in keys : TRUE
      pnl == Dex_calculatePnL(st, key[1], positionId).ret[1]
      returnAmount == TFHE_add(st.positions[key].collateral, pnl)
      st1 == Dex_creditBalance(st, key[1], returnAmount)
      st2 == [st1 EXCEPT !.positions[key].isOpen = FALSE]
  IN  IF keys = {} THEN Revert(st, "Position not open")
      ELSE Ok(st2, <<>>, << <<"PositionClosed", key[1], positionId>> >>)

Dex_closePosition(st, sender, positionId) ==
  LET pos == PosAt(st.positions, sender, positionId)
      pnl == Dex_calculatePnL(st, sender, positionId).ret[1]
      returnAmount == TFHE_add(pos.collateral, pnl)
      st1 == Dex_creditBalance(st, sender, returnAmount)
      st2 == [st1 EXCEPT !.positions[<<sender, positionId>>].isOpen = FALSE]
  IN  IF ~pos.isOpen THEN Revert(st, "Position not open")
      ELSE Ok(st2, <<>>, << <<"PositionClosed", sender, positionId>> >>)

\* A variant of updateStopLossTakeProfit that finds the position by its id
\* under any trader; the property C16 must tell it apart from the contract's.
Dex_updateStopLossTakeProfit_AnyCaller(st, sender, positionId, encStopLoss, encTakeProfit) ==
  LET keys == {k \in DOMAIN st.positions : k[2] = positionId /\ st.positions[k].isOpen}
      key == CHOOSE k \in keys : TRUE
      st1 == [st EXCEPT
                !.positions[key].stopLoss = TFHE_asEuint64(encStopLoss.v),
                !.positions[key].takeProfit = TFHE_asEuint64(encTakeProfit.v)]
  IN  IF keys = {} THEN Revert(st, "Position not open")
      ELSE Ok(st1, <<>>, << <<"StopLossTakeProfitUpdated", sender, positionId>> >>)

Dex_updateStopLossTakeProfit(st, sender, positionId, encStopLoss, encTakeProfit) ==
  LET pos == PosAt(st.positions, sender, positionId)
      st1 == [st EXCEPT
                !.positions[<<sender, positionId>>].stopLoss = TFHE_asEuint64(encStopLoss.v),
                !.positions[<<sender, positionId>>].takeProfit = TFHE_asEuint64(encTakeProfit.v)]
  IN  IF ~pos.isOpen THEN Revert(st, "Position not open")
      ELSE Ok(st1, <<>>, << <<"StopLossTakeProfitUpdated", sender, positionId>> >>)

\* A variant of checkStopLossTakeProfit that applies the long position's
\* comparisons to every position; the property C26 must tell it apart from
\* the contract's.
Dex_checkStopLossTakeProfit_LongRule(st, trader, positionId) ==
  LET pos == PosAt(st.positions, trader, positionId)
      slTriggered == TFHE_lt(st.encryptedOraclePrice, pos.stopLoss)
      tpTriggered == TFHE_gt(st.encryptedOraclePrice, pos.takeProfit)
  IN  IF ~pos.isOpen THEN Revert(st, "Position not open")
      ELSE Ok(st, <<slTriggered, tpTriggered>>, <<>>)

Dex_checkStopLossTakeProfit(st, trader, positionId) ==
  LET pos == PosAt(st.positions, trader, positionId)
      slTriggered == IF pos.isLong
                       THEN TFHE_lt(st.encryptedOraclePrice, pos.stopLoss)
                       ELSE TFHE_gt(st.encryptedOraclePrice, pos.stopLoss)
      tpTriggered == IF pos.isLong
                       THEN TFHE_gt(st.encryptedOraclePrice, pos.takeProfit)
                       ELSE TFHE_lt(st.encryptedOraclePrice, pos.takeProfit)
  IN  IF ~pos.isOpen THEN Revert(st, "Position not open")
      ELSE Ok(st, <<slTriggered, tpTriggered>>, <<>>)

\* A variant of executeStopLossTakeProfit that removes the closed id from
\* the trader's list; the property C37 must tell it apart from the
\* contract's.
Dex_executeStopLossTakeProfit_RemovesId(st, sender, trader, positionId) ==
  LET pos == PosAt(st.positions, trader, positionId)
      pnl == Dex_calculatePnL(st, trader, positionId).ret[1]
      returnAmount == TFHE_add(pos.collateral, pnl)
      st1 == Dex_creditBalance(st, trader, returnAmount)
      st2 == [st1 EXCEPT !.positions[<<trader, positionId>>].isOpen = FALSE,
                         !.userPositionIds[trader] =
                            SelectSeq(@, LAMBDA id : id # positionId)]
  IN  IF ~pos.isOpen THEN Revert(st, "Position not open")
      ELSE Ok(st2, <<>>, << <<"PositionClosed", trader, positionId>> >>)

Dex_executeStopLossTakeProfit(st, sender, trader, positionId) ==
  LET pos == PosAt(st.positions, trader, positionId)
      pnl == Dex_calculatePnL(st, trader, positionId).ret[1]
      returnAmount == TFHE_add(pos.collateral, pnl)
      st1 == Dex_creditBalance(st, trader, returnAmount)
      st2 == [st1 EXCEPT !.positions[<<trader, positionId>>].isOpen = FALSE]
  IN  IF ~pos.isOpen THEN Revert(st, "Position not open")
      ELSE Ok(st2, <<>>, << <<"PositionClosed", trader, positionId>> >>)

Dex_checkLiquidation(st, trader, positionId) ==
  LET pos == PosAt(st.positions, trader, positionId)
      positionValue == TFHE_mul(pos.size, st.encryptedOraclePrice)
      pnl == Dex_calculatePnL(st, trader, positionId).ret[1]
      netValue == TFHE_add(pos.collateral, pnl)
      netValueScaled == TFHE_mul(netValue, TFHE_asEuint64(10000))
      thresholdValue == TFHE_mul(positionValue, st.liquidationThreshold)
  IN  IF ~pos.isOpen THEN Revert(st, "Position not open")
      ELSE Ok(st, <<TFHE_lt(netValueScaled, thresholdValue)>>, <<>>)

\* Variants of liquidate that the properties C3 and C6 must tell apart from
\* the contract's: one that leaves the position open, one that pays the
\* collateral back to the position's owner.
Dex_liquidate_KeepsOpen(st, sender, trader, positionId) ==
  LET pos == PosAt(st.positions, trader, positionId)
      liquidationReward == TFHE_div(pos.collateral, 10)
      st2 == Dex_creditBalance(st, sender, liquidationReward)
  IN  IF ~pos.isOpen THEN Revert(st, "Position not open")
      ELSE Ok(st2, <<>>, << <<"LiquidationTriggered", trader, positionId>> >>)

Dex_liquidate_CreditsOwner(st, sender, trader, positionId) ==
  LET pos == PosAt(st.positions, trader, positionId)
      st1 == [st EXCEPT !.positions[<<trader, positionId>>].isOpen = FALSE]
      st2 == Dex_creditBalance(st1, trader, pos.collateral)
  IN  IF ~pos.isOpen THEN Revert(st, "Position not open")
      ELSE Ok(st2, <<>>, << <<"LiquidationTriggered", trader, positionId>> >>)

Dex_liquidate(st, sender, trader, positionId) ==
  LET pos == PosAt(st.positions, trader, positionId)
      st1 == [st EXCEPT !.positions[<<trader, positionId>>].isOpen = FALSE]
      liquidationReward == TFHE_div(pos.collateral, 10)
      st2 == Dex_creditBalance(st1, sender, liquidationReward)
  IN  IF ~pos.isOpen THEN Revert(st, "Position not open")
      ELSE Ok(st2, <<>>, << <<"LiquidationTriggered", trader, positionId>> >>)

\* _matchOrders: the loop from index i (0-based, as in the contract) on
RECURSIVE Dex_matchLoop(_, _, _)
Dex_matchLoop(orderBook, newOrderId, i) ==
  IF i >= Len(orderBook) THEN [orderBook |-> orderBook, events |-> <<>>]
  ELSE LET newOrder == orderBook[newOrderId + 1]
           existingOrder == orderBook[i + 1]
       IN  IF i = newOrderId THEN Dex_matchLoop(orderBook, newOrderId, i + 1)
           ELSE IF existingOrder.isLong = newOrder.isLong
             THEN Dex_matchLoop(orderBook, newOrderId, i + 1)
           ELSE IF existingOrder.isFilled \/ newOrder.isFilled
             THEN Dex_matchLoop(orderBook, newOrderId, i + 1)
           ELSE [orderBook |-> [orderBook EXCEPT ![newOrderId + 1].isFilled = TRUE,
                                                 ![i + 1].isFilled = TRUE],
                 events |-> << <<"OrderMatched", newOrderId, i>> >>]

\* A variant of _matchOrders that fills two orders only when their prices
\* cross (a branch on the comparison of two encrypted prices); the property C8
\* must tell it apart from the contract's.
RECURSIVE Dex_matchLoop_PriceGated(_, _, _)
Dex_matchLoop_PriceGated(orderBook, newOrderId, i) ==
  IF i >= Len(orderBook) THEN [orderBook |-> orderBook, events |-> <<>>]
  ELSE LET newOrder == orderBook[newOrderId + 1]
           existingOrder == orderBook[i + 1]
           canMatch == IF newOrder.isLong
                         THEN TFHE_ge(newOrder.price, existingOrder.price)
                         ELSE TFHE_le(newOrder.price, existingOrder.price)
       IN  IF i = newOrderId \/ existingOrder.isLong = newOrder.isLong
              \/ existingOrder.isFilled \/ newOrder.isFilled \/ ~canMatch
             THEN Dex_matchLoop_PriceGated(orderBook, newOrderId, i + 1)
           ELSE [orderBook |-> [orderBook EXCEPT ![newOrderId + 1].isFilled = TRUE,
                                                 ![i + 1].isFilled = TRUE],
                 events |-> << <<"OrderMatched", newOrderId, i>> >>]

Dex_matchOrders_PriceGated(orderBook, newOrderId) ==
  Dex_matchLoop_PriceGated(orderBook, newOrderId, 0)

\* A variant of _matchOrders that does not look at the isFilled flag of the
\* resting order; the property C14 must tell it apart from the contract's.
RECURSIVE Dex_matchLoop_IgnoresFilled(_, _, _)
Dex_matchLoop_IgnoresFilled(orderBook, newOrderId, i) ==
  IF i >= Len(orderBook) THEN [orderBook |-> orderBook, events |-> <<>>]
  ELSE LET newOrder == orderBook[newOrderId + 1]
           existingOrder == orderBook[i + 1]
       IN  IF i = newOrderId \/ existingOrder.isLong = newOrder.isLong
              \/ newOrder.isFilled
             THEN Dex_matchLoop_IgnoresFilled(orderBook, newOrderId, i + 1)
           ELSE [orderBook |-> [orderBook EXCEPT ![newOrderId + 1].isFilled = TRUE,
                                                 ![i + 1].isFilled = TRUE],
                 events |-> << <<"OrderMatched", newOrderId, i>> >>]

Dex_matchOrders_IgnoresFilled(orderBook, newOrderId) ==
  Dex_matchLoop_IgnoresFilled(orderBook, newOrderId, 0)

\* A variant of _matchOrders that scans the book from its end, so that the
\* new order is filled against the last opposite unfilled order; the
\* property C11 must tell it apart from the contract's.
RECURSIVE Dex_matchLoop_FromEnd(_, _, _)
Dex_matchLoop_FromEnd(orderBook, newOrderId, i) ==
  IF i < 0 THEN [orderBook |-> orderBook, events |-> <<>>]
  ELSE LET newOrder == orderBook[newOrderId + 1]
           existingOrder == orderBook[i + 1]
       IN  IF i = newOrderId \/ existingOrder.isLong = newOrder.isLong
              \/ existingOrder.isFilled \/ newOrder.isFilled
             THEN Dex_matchLoop_FromEnd(orderBook, newOrderId, i - 1)
           ELSE [orderBook |-> [orderBook EXCEPT ![newOrderId + 1].isFilled = TRUE,
                                                 ![i + 1].isFilled = TRUE],
                 events |-> << <<"OrderMatched", newOrderId, i>> >>]

Dex_matchOrders_FromEnd(orderBook, newOrderId) ==
  Dex_matchLoop_FromEnd(orderBook, newOrderId, Len(orderBook) - 1)

\* A variant of _matchOrders that marks only the resting order as filled; the
\* property C33 must tell it apart from the contract's.
Dex_matchOrders_OneSided(orderBook, newOrderId) ==
  LET matched == Dex_matchLoop(orderBook, newOrderId, 0)
  IN  [matched EXCEPT !.orderBook[newOrderId + 1].isFilled = FALSE]

\* A variant of _matchOrders whose scan starts at the second order of the
\* book; the property C34 must tell it apart from the contract's.
Dex_matchOrders_SkipsFirst(orderBook, newOrderId) ==
  Dex_matchLoop(orderBook, newOrderId, 1)

Dex_matchOrders(orderBook, newOrderId) == Dex_matchLoop(orderBook, newOrderId, 0)

\* A variant of placeOrder that removes the orders it filled from the book;
\* the property C13 must tell it apart from the contract's.
Dex_placeOrder_DropsFilled(st, sender, now, encPrice, encSize, isLong) ==
  LET order == [price |-> TFHE_asEuint64(encPrice.v), size |-> TFHE_asEuint64(encSize.v),
                trader |-> sender, isLong |-> isLong, isFilled |-> FALSE,
                timestamp |-> now]
      pushed == Append(st.orderBook, order)
      orderId == Len(pushed) - 1
      matched == Dex_matchOrders(pushed, orderId)
      kept == SelectSeq(matched.orderBook, LAMBDA o : ~o.isFilled)
  IN  Ok([st EXCEPT !.orderBook = kept], <<orderId>>,
         << <<"OrderPlaced", sender, orderId, isLong>> >> \o matched.events)

Dex_placeOrder(st, sender, now, encPrice, encSize, isLong) ==
  LET order == [price |-> TFHE_asEuint64(encPrice.v), size |-> TFHE_asEuint64(encSize.v),
                trader |-> sender, isLong |-> isLong, isFilled |-> FALSE,
                timestamp |-> now]
      pushed == Append(st.orderBook, order)
      orderId == Len(pushed) - 1
      matched == Dex_matchOrders(pushed, orderId)
  IN  Ok([st EXCEPT !.orderBook = matched.orderBook], <<orderId>>,
         << <<"OrderPlaced", sender, orderId, isLong>> >> \o matched.events)

\* A variant of updateOraclePrice without the onlyAdmin modifier; the
\* property C15 must tell it apart from the contract's.
Dex_updateOraclePrice_AnyCaller(st, sender, now, encNewPrice) ==
  Ok([st EXCEPT !.encryptedOraclePrice = TFHE_asEuint64(encNewPrice.v)],
     <<>>, << <<"PriceUpdated", now>> >>)

\* A variant of updateOraclePrice in which the admin also rescales the
\* liquidation threshold; the property C31 must tell it apart from the
\* contract's.
Dex_updateOraclePrice_SetsThreshold(st, sender, now, encNewPrice) ==
  IF sender # st.admin THEN Revert(st, "Only admin")
  ELSE Ok([st EXCEPT !.encryptedOraclePrice = TFHE_asEuint64(encNewPrice.v),
                     !.liquidationThreshold = TFHE_asEuint64(encNewPrice.v)],
          <<>>, << <<"PriceUpdated", now>> >>)

Dex_updateOraclePrice(st, sender, now, encNewPrice) ==
  IF sender # st.admin THEN Revert(st, "Only admin")
  ELSE Ok([st EXCEPT !.encryptedOraclePrice = TFHE_asEuint64(encNewPrice.v)],
          <<>>, << <<"PriceUpdated", now>> >>)

Dex_getOraclePrice(st) == st.encryptedOraclePrice

Dex_getUserPositions(st, user) == st.userPositionIds[user]

Dex_getOrderBookSize(st) == Len(st.orderBook)

\* ------------------------------------------- ConfidentialPerpDEXMock (uint256)
\* mockEncrypt is abi.encodePacked(uint256): the big-endian bytes of the
\* value, WordBytes long here (32 in the contract).
WordBytes == 4

RECURSIVE BigEndian(_, _)
BigEndian(value, n) ==
  IF n = 0 THEN <<>> ELSE Append(BigEndian(value \div 256, n - 1), value % 256)

Mock_mockEncrypt(value) == BigEndian(value, WordBytes)

RECURSIVE BytesToUint(_, _)
BytesToUint(data, n) ==
  IF n = 0 THEN 0 ELSE BytesToUint(data, n - 1) * 256 + data[n]

Mock_mockDecrypt(data) ==
  IF Len(data) = 0 THEN 0
  ELSE IF Len(data) < WordBytes
    THEN LET padded == [i \in 1..WordBytes |->
                          IF i <= WordBytes - Len(data) THEN 0
                          ELSE data[i - (WordBytes - Len(data))]]
         IN  BytesToUint(padded, WordBytes)
  ELSE BytesToUint(data, WordBytes)

Mock_constructor(sender) ==
  [admin |-> sender,
   liquidationThreshold |-> 500,
   fundingRate |-> 10,
   oraclePrice |-> 50000 * 100,
   balances |-> [a \in Accounts |-> 0],
   positions |-> <<>>,
   userPositionIds |-> [a \in Accounts |-> <<>>],
   orderBook |-> <<>>]

Mock_deposit(st, sender, encryptedAmount) ==
  LET amount == Mock_mockDecrypt(encryptedAmount)
  IN  Ok([st EXCEPT !.balances[sender] = @ + amount], <<>>,
         << <<"BalanceDeposited", sender, 0>> >>)

Mock_getBalance(st, sender) == st.balances[sender]

Mock_openPosition(st, sender, now, encSize, leverage, isLong) ==
  LET size == Mock_mockDecrypt(encSize)
      positionValue == size * st.oraclePrice
      requiredCollateral == positionValue \div leverage
      positionId == PositionId(sender, now, size)
      rec == [ZeroPosition EXCEPT
                !.size = size, !.entryPrice = st.oraclePrice,
                !.collateral = requiredCollateral, !.leverage = leverage,
                !.isLong = isLong, !.timestamp = now, !.isOpen = TRUE]
      st1 == [st EXCEPT !.balances[sender] = @ - requiredCollateral,
                        !.positions = PosPut(@, sender, positionId, rec),
                        !.userPositionIds[sender] = Append(@, positionId)]
  IN  IF leverage = 0 THEN Revert(st, "Panic: division by zero")
      ELSE IF ~(st.balances[sender] >= requiredCollateral)
        THEN Revert(st, "Insufficient balance")
      ELSE Ok(st1, <<positionId>>, << <<"PositionOpened", sender, positionId, isLong>> >>)

Mock_calculatePnL(st, trader, positionId) ==
  LET pos == PosAt(st.positions, trader, positionId)
      priceDiff == IF pos.isLong
                     THEN (IF st.oraclePrice > pos.entryPrice
                             THEN st.oraclePrice - pos.entryPrice ELSE 0)
                     ELSE (IF pos.entryPrice > st.oraclePrice
                             THEN pos.entryPrice - st.oraclePrice ELSE 0)
  IN  IF ~pos.isOpen THEN Revert(st, "Position not open")
      ELSE Ok(st, <<priceDiff * pos.size>>, <<>>)

\* A variant of the mock's closePosition that finds the position by its id
\* under any trader and pays the caller; the property C35 must tell it apart
\* from the contract's.
Mock_closePosition_AnyCaller(st, sender, positionId) ==
  LET keys == {k \in DOMAIN st.positions : k[2] = positionId /\ st.positions[k].isOpen}
      key == CHOOSE k \in keys : TRUE
      pnl == Mock_calculatePnL(st, key[1], positionId).ret[1]
      returnAmount == st.positions[key].collateral + pnl
      st1 == [st EXCEPT !.balances[sender] = @ + returnAmount,
                        !.positions[key].isOpen = FALSE]
  IN  IF keys = {} THEN Revert(st, "Position not open")
      ELSE Ok(st1, <<>>, << <<"PositionClosed", sender, positionId>> >>)

Mock_closePosition(st, sender, positionId) ==
  LET pos == PosAt(st.positions, sender, positionId)
      pnl == Mock_calculatePnL(st, sender, positionId).ret[1]
      returnAmount == pos.collateral + pnl
      st1 == [st EXCEPT !.balances[sender] = @ + returnAmount,
                        !.positions[<<sender, positionId>>].isOpen = FALSE]
  IN  IF ~pos.isOpen THEN Revert(st, "Position not open")
      ELSE Ok(st1, <<>>, << <<"PositionClosed", sender, positionId>> >>)

Mock_checkLiquidation(st, trader, positionId) ==
  LET pos == PosAt(st.positions, trader, positionId)
      positionValue == pos.size * st.oraclePrice
      pnl == Mock_calculatePnL(st, trader, positionId).ret[1]
      netValue == pos.collateral + pnl
      netValueScaled == netValue * 10000
      thresholdValue == positionValue * st.liquidationThreshold
  IN  IF ~pos.isOpen THEN Revert(st, "Position not open")
      ELSE Ok(st, <<netValueScaled < thresholdValue>>, <<>>)

\* A variant of the mock's liquidate whose failure leaves the position
\* closed (the write is not rolled back); the property C17 must tell it
\* apart from the contract's.
Mock_liquidate_ClosesFirst(st, sender, trader, positionId) ==
  LET pos == PosAt(st.positions, trader, positionId)
      isLiquidatable == Mock_checkLiquidation(st, trader, positionId).ret[1]
      liquidationReward == pos.collateral \div 10
      st0 == [st EXCEPT !.positions[<<trader, positionId>>].isOpen = FALSE]
      st1 == [st0 EXCEPT !.balances[sender] = @ + liquidationReward]
  IN  IF ~pos.isOpen THEN Revert(st, "Position not open")
      ELSE IF ~isLiquidatable THEN Revert(st0, "Position not liquidatable")
      ELSE Ok(st1, <<>>, << <<"LiquidationTriggered", trader, positionId>> >>)

Mock_liquidate(st, sender, trader, positionId) ==
  LET pos == PosAt(st.positions, trader, positionId)
      isLiquidatable == Mock_checkLiquidation(st, trader, positionId).ret[1]
      liquidationReward == pos.collateral \div 10
      st1 == [st EXCEPT !.positions[<<trader, positionId>>].isOpen = FALSE,
                        !.balances[sender] = @ + liquidationReward]
  IN  IF ~pos.isOpen THEN Revert(st, "Position not open")
      ELSE IF ~isLiquidatable THEN Revert(st, "Position not liquidatable")
      ELSE Ok(st1, <<>>, << <<"LiquidationTriggered", trader, positionId>> >>)

RECURSIVE Mock_matchLoop(_, _, _)
Mock_matchLoop(orderBook, newOrderId, i) ==
  IF i >= Len(orderBook) THEN [orderBook |-> orderBook, events |-> <<>>]
  ELSE LET newOrder == orderBook[newOrderId + 1]
           existingOrder == orderBook[i + 1]
           canMatch == IF newOrder.isLong
                         THEN newOrder.price >= existingOrder.price
                         ELSE newOrder.price <= existingOrder.price
       IN  IF i = newOrderId THEN Mock_matchLoop(orderBook, newOrderId, i + 1)
           ELSE IF existingOrder.isLong = newOrder.isLong
             THEN Mock_matchLoop(orderBook, newOrderId, i + 1)
           ELSE IF existingOrder.isFilled \/ newOrder.isFilled
             THEN Mock_matchLoop(orderBook, newOrderId, i + 1)
           ELSE IF canMatch
             THEN [orderBook |-> [orderBook EXCEPT ![newOrderId + 1].isFilled = TRUE,
                                                   ![i + 1].isFilled = TRUE],
                   events |-> << <<"OrderMatched", newOrderId, i>> >>]
           ELSE Mock_matchLoop(orderBook, newOrderId, i + 1)

Mock_matchOrders(orderBook, newOrderId) == Mock_matchLoop(orderBook, newOrderId, 0)

Mock_placeOrder(st, sender, now, encPrice, encSize, isLong) ==
  LET order == [price |-> Mock_mockDecrypt(encPrice), size |-> Mock_mockDecrypt(encSize),
                trader |-> sender, isLong |-> isLong, isFilled |-> FALSE,
                timestamp |-> now]
      pushed == Append(st.orderBook, order)
      orderId == Len(pushed) - 1
      matched == Mock_matchOrders(pushed, orderId)
  IN  Ok([st EXCEPT !.orderBook = matched.orderBook], <<orderId>>,
         << <<"OrderPlaced", sender, orderId, isLong>> >> \o matched.events)

Mock_updateOraclePrice(st, sender, now, encNewPrice) ==
  IF sender # st.admin THEN Revert(st, "Only admin")
  ELSE Ok([st EXCEPT !.oraclePrice = Mock_mockDecrypt(encNewPrice)],
          <<>>, << <<"PriceUpdated", now>> >>)

Mock_getOraclePrice(st) == st.oraclePrice

Mock_getUserPositions(st, user) == st.userPositionIds[user]

Mock_getOrderBookSize(st) == Len(st.orderBook)

\* ------------------------------------------------ ConfidentialPerpDEXApp
\* loadPositions: what the Positions tab shows for userAddress.  emptyState
\* is the 'No open positions' block, items the rendered position ids (one
\* position-item with a Close Position button per id).
App_loadPositions(st, userAddress) ==
  LET positionIds == Dex_getUserPositions(st, userAddress)
  IN  IF Len(positionIds) = 0 THEN [emptyState |-> TRUE, items |-> <<>>]
      ELSE [emptyState |-> FALSE, items |-> positionIds]

\* ------------------------------------------------------------ the inputs
Traders == {"alice", "bob"}
Keepers == {"admin", "bob"}
AmountInputs == {Ct(11, 1000)}
\* openPosition calls: <<msg.sender, encSize, leverage, isLong>>
OpenInputs ==
  { <<"alice", Ct(21, 10), 5, TRUE>>, <<"alice", Ct(21, 10), 5, FALSE>>,
    <<"alice", Ct(22, 10), 3, TRUE>>, <<"bob", Ct(21, 10), 3, FALSE>> }
\* updateOraclePrice calls: <<msg.sender, encNewPrice>>
PriceUpdates ==
  { <<"admin", Ct(31, 100)>>, <<"admin", Ct(32, 120)>>, <<"admin", Ct(33, 80)>>,
    <<"bob", Ct(31, 100)>> }
BracketInputs == {<<Ct(40, 0), Ct(40, 0)>>}
BracketUpdates == {<<Ct(41, 90), Ct(42, 110)>>}
\* placeOrder calls: <<msg.sender, encPrice, encSize, isLong>>
OrderInputs ==
  { <<"alice", Ct(51, 50), Ct(61, 5), TRUE>>, <<"bob", Ct(52, 40), Ct(61, 5), FALSE>>,
    <<"bob", Ct(53, 60), Ct(61, 5), FALSE>> }

\* A caller names a position by the openPosition call that created it:
\* <<owner, block.timestamp, encSize>>.  Each deployment derived its own id.
Owner(pid) == pid[1]
DexId(pid) == PositionId(pid[1], pid[2], pid[3].h)
MockId(pid) == PositionId(pid[1], pid[2], Mock_mockDecrypt(Mock_mockEncrypt(pid[3].v)))
NoPosition == <<"alice", 0, Ct(0, 0)>>

\* who sends closePosition and updateStopLossTakeProfit for a position: its
\* owner, and one other account
Closers(pid) == {Owner(pid), Deployer}

\* the mock has no bracket functions: the call reverts
Mock_noFunction(st) == Revert(st, "function not found")

\* The second run of each contract receives the same calls with other
\* confidential values: the same ciphertext handles encrypting other
\* plaintexts.  The mock derives its position ids from the plaintext size.
OtherPlaintext(v) == IF v <= 210 THEN 210 - v ELSE v + 1000
Other(ct) == [h |-> ct.h, v |-> OtherPlaintext(ct.v)]
MockShadowId(pid) ==
  PositionId(pid[1], pid[2], Mock_mockDecrypt(Mock_mockEncrypt(OtherPlaintext(pid[3].v))))

\* --------------------------------------------------------------- the state
VARIABLES
  dex,        \* storage of ConfidentialPerpDEX
  mock,       \* storage of ConfidentialPerpDEXMock
  shadow,     \* storage of ConfidentialPerpDEX in the run with other plaintexts
  mockShadow, \* storage of ConfidentialPerpDEXMock in the run with other plaintexts
  now,        \* block.timestamp of the block being filled
  calls,      \* transactions sent so far
  last,       \* the last transaction and its outcome in each deployment
  opened,     \* the positions named by the openPosition calls made so far
  life,       \* per FHE position key: successful opens, owner credits, liquidations
  deposited,  \* per account: sum of the amounts deposited
  conserving, \* per account: only deposit/open/close so far, at one oracle price
  bot,        \* fields of the LiquidationBot object (scripts/liquidation-bot.js)
  loops,      \* per start() call that entered the while loop: where it is suspended
  inbox,      \* contract events emitted and not yet delivered to the listeners
  handled,    \* position ids whose PositionClosed/LiquidationTriggered the bot handled
  sent        \* the liquidate transactions the bot has sent

botVars == <<bot, loops, inbox, handled, sent>>

vars == <<dex, mock, shadow, mockShadow, now, calls, last, opened, life, deposited,
          conserving, bot, loops, inbox, handled, sent>>

Outcome(r) == [ok |-> r.ok, err |-> r.err, ret |-> r.ret, events |-> r.events]

Call(op, sender, trader, pid, args, rd, rm, rs, rms) ==
  [op |-> op, sender |-> sender, trader |-> trader, pid |-> pid, args |-> args,
   dex |-> Outcome(rd), mock |-> Outcome(rm), shadow |-> Outcome(rs),
   mockShadow |-> Outcome(rms)]

\* one transaction, sent to the two deployments in both runs
Transact(call, rd, rm, rs, rms) ==
  /\ calls < MaxCalls
  /\ calls' = calls + 1
  /\ dex' = rd.st
  /\ mock' = rm.st
  /\ shadow' = rs.st
  /\ mockShadow' = rms.st
  /\ last' = call
  /\ UNCHANGED now
  /\ UNCHANGED botVars

NoLife == [opens |-> 0, credits |-> 0, liquidations |-> 0]

LifeOf(key) == IF key \in DOMAIN life THEN life[key] ELSE NoLife

LifePut(key, rec) ==
  [k \in (DOMAIN life) \cup {key} |-> IF k = key THEN rec ELSE life[k]]

Active(a) == deposited[a] > 0 \/ dex.userPositionIds[a] # <<>>

Targets == IF opened = {} THEN {NoPosition} ELSE opened

\* A suspended start() call: the await it is suspended at, the element of
\* monitoredPositions its for-of loop holds (0: none), the reply in flight.
NoLoop == [pc |-> "off", position |-> 0, reply |-> FALSE]

\* the bot after its constructor and initialize(): nothing monitored, not
\* running, the event listeners registered
BotIdle ==
  /\ bot = [isRunning |-> FALSE, subscribed |-> TRUE, monitoredPositions |-> <<>>,
            liquidationsExecuted |-> 0]
  /\ loops = [l \in 1..MaxLoops |-> NoLoop]
  /\ inbox = <<>>
  /\ handled = {}
  /\ sent = {}

Init ==
  /\ BotIdle
  /\ dex = Dex_constructor(Deployer)
  /\ mock = Mock_constructor(Deployer)
  /\ shadow = Dex_constructor(Deployer)
  /\ mockShadow = Mock_constructor(Deployer)
  /\ now = 1
  /\ calls = 0
  /\ last = Call("constructor", Deployer, Deployer, NoPosition, <<>>,
                 Ok(<<>>, <<>>, <<>>), Ok(<<>>, <<>>, <<>>), Ok(<<>>, <<>>, <<>>),
                 Ok(<<>>, <<>>, <<>>))
  /\ opened = {}
  /\ life = <<>>
  /\ deposited = [a \in Accounts |-> 0]
  /\ conserving = [a \in Accounts |-> TRUE]

\* a new block is mined: block.timestamp advances
NewBlock ==
  /\ now < MaxTime
  /\ now' = now + 1
  /\ UNCHANGED <<dex, mock, shadow, mockShadow, calls, last, opened, life, deposited, conserving>>
  /\ UNCHANGED botVars

Deposit(sender, amount) ==
  LET rd == Dex_deposit(dex, sender, amount)
      rm == Mock_deposit(mock, sender, Mock_mockEncrypt(amount.v))
      rs == Dex_deposit(shadow, sender, Other(amount))
      rms == Mock_deposit(mockShadow, sender, Mock_mockEncrypt(OtherPlaintext(amount.v)))
  IN  /\ Transact(Call("deposit", sender, sender, NoPosition, <<amount>>, rd, rm, rs, rms),
                  rd, rm, rs, rms)
      /\ deposited' = [deposited EXCEPT ![sender] = @ + amount.v]
      /\ UNCHANGED <<opened, life, conserving>>

OpenPosition(sender, encSize, leverage, isLong, brackets) ==
  LET rd == Dex_openPosition(dex, sender, now, encSize, leverage, isLong,
                             brackets[1], brackets[2])
      rm == Mock_openPosition(mock, sender, now, Mock_mockEncrypt(encSize.v),
                              leverage, isLong)
      rs == Dex_openPosition(shadow, sender, now, Other(encSize), leverage, isLong,
                             Other(brackets[1]), Other(brackets[2]))
      rms == Mock_openPosition(mockShadow, sender, now,
                               Mock_mockEncrypt(OtherPlaintext(encSize.v)), leverage, isLong)
      pid == <<sender, now, encSize>>
      key == <<sender, DexId(pid)>>
  IN  /\ Transact(Call("openPosition", sender, sender, pid,
                       <<leverage, isLong, brackets>>, rd, rm, rs, rms), rd, rm, rs, rms)
      /\ opened' = opened \cup {pid}
      /\ life' = LifePut(key, [LifeOf(key) EXCEPT !.opens = @ + 1])
      /\ UNCHANGED <<deposited, conserving>>

ClosePosition(sender, pid) ==
  LET rd == Dex_closePosition(dex, sender, DexId(pid))
      rm == Mock_closePosition(mock, sender, MockId(pid))
      rs == Dex_closePosition(shadow, sender, DexId(pid))
      rms == Mock_closePosition(mockShadow, sender, MockShadowId(pid))
      key == <<sender, DexId(pid)>>
  IN  /\ Transact(Call("closePosition", sender, sender, pid, <<>>, rd, rm, rs, rms), rd, rm, rs, rms)
      /\ life' = IF rd.ok THEN LifePut(key, [LifeOf(key) EXCEPT !.credits = @ + 1])
                 ELSE life
      /\ UNCHANGED <<opened, deposited, conserving>>

UpdateStopLossTakeProfit(sender, pid, brackets) ==
  LET rd == Dex_updateStopLossTakeProfit(dex, sender, DexId(pid), brackets[1], brackets[2])
      rm == Mock_noFunction(mock)
      rs == Dex_updateStopLossTakeProfit(shadow, sender, DexId(pid),
                                         Other(brackets[1]), Other(brackets[2]))
      rms == Mock_noFunction(mockShadow)
  IN  /\ Transact(Call("updateStopLossTakeProfit", sender, sender, pid, <<brackets>>,
                       rd, rm, rs, rms), rd, rm, rs, rms)
      /\ UNCHANGED <<opened, life, deposited, conserving>>

ExecuteStopLossTakeProfit(sender, trader, pid) ==
  LET rd == Dex_executeStopLossTakeProfit(dex, sender, trader, DexId(pid))
      rm == Mock_noFunction(mock)
      rs == Dex_executeStopLossTakeProfit(shadow, sender, trader, DexId(pid))
      rms == Mock_noFunction(mockShadow)
      key == <<trader, DexId(pid)>>
  IN  /\ Transact(Call("executeStopLossTakeProfit", sender, trader, pid, <<>>, rd, rm, rs, rms),
                  rd, rm, rs, rms)
      /\ life' = IF rd.ok THEN LifePut(key, [LifeOf(key) EXCEPT !.credits = @ + 1])
                 ELSE life
      /\ conserving' = IF rd.ok THEN [conserving EXCEPT ![trader] = FALSE] ELSE conserving
      /\ UNCHANGED <<opened, deposited>>

Liquidate(sender, trader, pid) ==
  LET rd == Dex_liquidate(dex, sender, trader, DexId(pid))
      rm == Mock_liquidate(mock, sender, trader, MockId(pid))
      rs == Dex_liquidate(shadow, sender, trader, DexId(pid))
      rms == Mock_liquidate(mockShadow, sender, trader, MockShadowId(pid))
      key == <<trader, DexId(pid)>>
  IN  /\ Transact(Call("liquidate", sender, trader, pid, <<>>, rd, rm, rs, rms), rd, rm, rs, rms)
      /\ life' = IF rd.ok THEN LifePut(key, [LifeOf(key) EXCEPT !.liquidations = @ + 1])
                 ELSE life
      /\ conserving' = IF rd.ok
                         THEN [conserving EXCEPT ![trader] = FALSE, ![sender] = FALSE]
                         ELSE conserving
      /\ UNCHANGED <<opened, deposited>>

PlaceOrder(sender, encPrice, encSize, isLong) ==
  LET rd == Dex_placeOrder(dex, sender, now, encPrice, encSize, isLong)
      rm == Mock_placeOrder(mock, sender, now, Mock_mockEncrypt(encPrice.v),
                            Mock_mockEncrypt(encSize.v), isLong)
      rs == Dex_placeOrder(shadow, sender, now, Other(encPrice), Other(encSize), isLong)
      rms == Mock_placeOrder(mockShadow, sender, now,
                             Mock_mockEncrypt(OtherPlaintext(encPrice.v)),
                             Mock_mockEncrypt(OtherPlaintext(encSize.v)), isLong)
  IN  /\ Transact(Call("placeOrder", sender, sender, NoPosition,
                       <<encPrice, encSize, isLong>>, rd, rm, rs, rms), rd, rm, rs, rms)
      /\ UNCHANGED <<opened, life, deposited, conserving>>

UpdateOraclePrice(sender, encNewPrice) ==
  LET rd == Dex_updateOraclePrice(dex, sender, now, encNewPrice)
      rm == Mock_updateOraclePrice(mock, sender, now, Mock_mockEncrypt(encNewPrice.v))
      rs == Dex_updateOraclePrice(shadow, sender, now, Other(encNewPrice))
      rms == Mock_updateOraclePrice(mockShadow, sender, now,
                                    Mock_mockEncrypt(OtherPlaintext(encNewPrice.v)))
      changed == rd.ok /\ rd.st.encryptedOraclePrice # dex.encryptedOraclePrice
  IN  /\ Transact(Call("updateOraclePrice", sender, sender, NoPosition,
                       <<encNewPrice>>, rd, rm, rs, rms), rd, rm, rs, rms)
      /\ conserving' = IF changed
                         THEN [a \in Accounts |-> conserving[a] /\ ~Active(a)]
                         ELSE conserving
      /\ UNCHANGED <<opened, life, deposited>>

Next ==
  \/ NewBlock
  \/ \E a \in Traders, amount \in AmountInputs : Deposit(a, amount)
  \/ \E o \in OpenInputs, b \in BracketInputs : OpenPosition(o[1], o[2], o[3], o[4], b)
  \/ \E pid \in Targets : \E a \in Closers(pid) : ClosePosition(a, pid)
  \/ \E pid \in Targets, b \in BracketUpdates : \E a \in Closers(pid) :
       UpdateStopLossTakeProfit(a, pid, b)
  \/ \E pid \in Targets : ExecuteStopLossTakeProfit(Deployer, Owner(pid), pid)
  \/ \E a \in Keepers, pid \in Targets : Liquidate(a, Owner(pid), pid)
  \/ \E o \in OrderInputs : PlaceOrder(o[1], o[2], o[3], o[4])
  \/ \E u \in PriceUpdates : UpdateOraclePrice(u[1], u[2])

Spec == Init /\ [][Next]_vars

\* The run restricted to the functions the two contracts have in common
\* (the mock has no bracket functions; positions are opened with brackets 0).
CommonNext ==
  \/ NewBlock
  \/ \E a \in Traders, amount \in AmountInputs : Deposit(a, amount)
  \/ \E o \in OpenInputs, b \in BracketInputs : OpenPosition(o[1], o[2], o[3], o[4], b)
  \/ \E pid \in Targets : \E a \in Closers(pid) : ClosePosition(a, pid)
  \/ \E a \in Keepers, pid \in Targets : Liquidate(a, Owner(pid), pid)
  \/ \E o \in OrderInputs : PlaceOrder(o[1], o[2], o[3], o[4])
  \/ \E u \in PriceUpdates : UpdateOraclePrice(u[1], u[2])

CommonSpec == Init /\ [][CommonNext]_vars

\* The run in which positions are opened over a grid of small values: the
\* admin has set the oracle price to one of 1..MaxFreshPrice, and a trader
\* deposits and opens positions of size 1..MaxFreshSize at the leverages of
\* the frontend's slider (1x-20x).
MaxFreshPrice == 25
MaxFreshSize == 3
FreshLeverages == {1, 2, 10, 19, 20}
FreshOpenInputs ==
  {<<"alice", Ct(20 + size, size), leverage, TRUE>> :
     size \in 1..MaxFreshSize, leverage \in FreshLeverages}

FreshInit ==
  \E price \in 1..MaxFreshPrice :
    LET encNewPrice == Ct(30 + price, price)
        rd == Dex_updateOraclePrice(Dex_constructor(Deployer), Deployer, 1, encNewPrice)
        rm == Mock_updateOraclePrice(Mock_constructor(Deployer), Deployer, 1,
                                     Mock_mockEncrypt(encNewPrice.v))
        rs == Dex_updateOraclePrice(Dex_constructor(Deployer), Deployer, 1,
                                    Other(encNewPrice))
        rms == Mock_updateOraclePrice(Mock_constructor(Deployer), Deployer, 1,
                                      Mock_mockEncrypt(OtherPlaintext(encNewPrice.v)))
    IN  /\ BotIdle
        /\ dex = rd.st
        /\ mock = rm.st
        /\ shadow = rs.st
        /\ mockShadow = rms.st
        /\ now = 1
        /\ calls = MaxCalls - 2
        /\ last = Call("updateOraclePrice", Deployer, Deployer, NoPosition,
                       <<encNewPrice>>, rd, rm, rs, rms)
        /\ opened = {}
        /\ life = <<>>
        /\ deposited = [a \in Accounts |-> 0]
        /\ conserving = [a \in Accounts |-> TRUE]

FreshNext ==
  \/ \E amount \in AmountInputs : Deposit("alice", amount)
  \/ \E o \in FreshOpenInputs, b \in BracketInputs :
       OpenPosition(o[1], o[2], o[3], o[4], b)

FreshSpec == FreshInit /\ [][FreshNext]_vars

\* ------------------------------------------------- the liquidation bot
\* scripts/liquidation-bot.js against the deployment `dex`.  The bot is one
\* JavaScript object; its code runs to the next await without interruption,
\* and an event callback or the continuation of another suspended call runs
\* at an await.  monitoredPositions is a Set of objects in insertion order:
\* an element is a fresh object (a position id can be in it twice), a deleted
\* element keeps its place as a hole the iterators skip.  The stats counters
\* positionsChecked and errors and the element field timestamp are written
\* and never read, and are left out.
BotSigner == "bob"

\* the openPosition calls of the traders the bot watches
BotOpenInputs == { <<"alice", Ct(21, 10), 5, TRUE>>, <<"alice", Ct(22, 10), 3, TRUE>> }

\* the events subscribeToEvents registers a listener for
SubscribedEvents == {"PositionOpened", "PositionClosed", "OrderPlaced", "LiquidationTriggered"}

ClosingEvents == {"PositionClosed", "LiquidationTriggered"}

\* the element a Set iterator standing at index i yields next (0: done)
SetNext(set, i) ==
  LET later == {j \in (i + 1)..Len(set) : ~set[j].deleted}
  IN  IF later = {} THEN 0 ELSE CHOOSE j \in later : \A k \in later : j <= k

Bot_removePosition(b, positionId) ==
  LET found == {j \in 1..Len(b.monitoredPositions) :
                  /\ ~b.monitoredPositions[j].deleted
                  /\ b.monitoredPositions[j].positionId = positionId}
      first == CHOOSE j \in found : \A k \in found : j <= k
  IN  IF found = {} THEN b
      ELSE [b EXCEPT !.monitoredPositions[first].deleted = TRUE]

\* event is a tuple <<eventName, trader, positionId, ...>> as the contract emits it
Bot_handleEvent(b, event) ==
  IF event[1] = "PositionOpened"
    THEN [b EXCEPT !.monitoredPositions =
            Append(@, [trader |-> event[2], positionId |-> event[3],
                       isLong |-> event[4], deleted |-> FALSE])]
  ELSE IF event[1] \in ClosingEvents THEN Bot_removePosition(b, event[3])
  ELSE b

\* scanPositions from the element after index `from` to its next await, and,
\* when the for-of loop is over, start() to its next await or its return
Bot_scanPositions(b, from) ==
  LET next == SetNext(b.monitoredPositions, from)
  IN  IF next # 0 THEN [pc |-> "health", position |-> next, reply |-> FALSE]
      ELSE IF b.isRunning THEN [pc |-> "sleep", position |-> 0, reply |-> FALSE]
      ELSE [pc |-> "done", position |-> 0, reply |-> FALSE]

Held(l) == bot.monitoredPositions[loops[l].position]

Scanning(l) ==
  loops[l].pc \in {"health", "healthReply", "txPending", "txReply", "delay5", "delay"}

\* a trader opens a position (each ciphertext once: the ids are distinct)
TraderOpens(o, b) ==
  LET rd == Dex_openPosition(dex, o[1], now, o[2], o[3], o[4], b[1], b[2])
      pid == <<o[1], now, o[2]>>
  IN  /\ calls < MaxCalls
      /\ pid \notin opened
      /\ calls' = calls + 1
      /\ dex' = rd.st
      /\ opened' = opened \cup {pid}
      /\ inbox' = inbox \o rd.events
      /\ UNCHANGED <<mock, shadow, mockShadow, now, last, life, deposited, conserving,
                     bot, loops, handled, sent>>

\* the owner of a position sends closePosition
TraderCloses(pid) ==
  LET rd == Dex_closePosition(dex, Owner(pid), DexId(pid))
  IN  /\ calls < MaxCalls
      /\ calls' = calls + 1
      /\ dex' = rd.st
      /\ inbox' = inbox \o rd.events
      /\ UNCHANGED <<mock, shadow, mockShadow, now, last, opened, life, deposited,
                     conserving, bot, loops, handled, sent>>

\* the provider delivers the oldest event: the listener calls handleEvent
DeliverEvent ==
  /\ inbox # <<>>
  /\ inbox' = Tail(inbox)
  /\ LET event == Head(inbox)
         heard == bot.subscribed /\ event[1] \in SubscribedEvents
     IN  /\ bot' = IF heard THEN Bot_handleEvent(bot, event) ELSE bot
         /\ handled' = IF heard /\ event[1] \in ClosingEvents
                         THEN handled \cup {event[3]} ELSE handled
  /\ UNCHANGED <<dex, mock, shadow, mockShadow, now, calls, last, opened, life,
                 deposited, conserving, loops, sent>>

\* start(): a no-op while isRunning, else the while loop to its first await
Start ==
  IF bot.isRunning THEN UNCHANGED vars
  ELSE /\ \E l \in 1..MaxLoops : loops[l].pc \in {"off", "done"}
       /\ LET free == {l \in 1..MaxLoops : loops[l].pc \in {"off", "done"}}
              l == CHOOSE x \in free : \A y \in free : x <= y
              b == [bot EXCEPT !.isRunning = TRUE]
          IN  /\ bot' = b
              /\ loops' = [loops EXCEPT ![l] = Bot_scanPositions(b, 0)]
       /\ UNCHANGED <<dex, mock, shadow, mockShadow, now, calls, last, opened, life,
                      deposited, conserving, inbox, handled, sent>>

\* stop()
Stop ==
  /\ bot' = [bot EXCEPT !.isRunning = FALSE, !.subscribed = FALSE]
  /\ UNCHANGED <<dex, mock, shadow, mockShadow, now, calls, last, opened, life,
                 deposited, conserving, loops, inbox, handled, sent>>

\* checkPositionHealth: the node evaluates positions(trader, positionId)
HealthRead(l) ==
  /\ loops[l].pc = "health"
  /\ loops' = [loops EXCEPT ![l].pc = "healthReply",
                            ![l].reply = PosAt(dex.positions, Held(l).trader,
                                               Held(l).positionId).isOpen]
  /\ UNCHANGED <<dex, mock, shadow, mockShadow, now, calls, last, opened, life,
                 deposited, conserving, bot, inbox, handled, sent>>

\* the reply arrives: checkPositionHealth returns, and scanPositions runs on
\* to attemptLiquidation's contract.liquidate(...) or to the delay
HealthReturn(l) ==
  /\ loops[l].pc = "healthReply"
  /\ IF loops[l].reply
       THEN /\ loops' = [loops EXCEPT ![l].pc = "txPending", ![l].reply = FALSE]
            /\ sent' = sent \cup {[loop |-> l, trader |-> Held(l).trader,
                                   positionId |-> Held(l).positionId,
                                   handled |-> Held(l).positionId \in handled]}
       ELSE /\ loops' = [loops EXCEPT ![l].pc = "delay"]
            /\ UNCHANGED sent
  /\ UNCHANGED <<dex, mock, shadow, mockShadow, now, calls, last, opened, life,
                 deposited, conserving, bot, inbox, handled>>

\* the bot's liquidate transaction is mined
MineLiquidate(l) ==
  LET rd == Dex_liquidate(dex, BotSigner, Held(l).trader, Held(l).positionId)
  IN  /\ loops[l].pc = "txPending"
      /\ dex' = rd.st
      /\ inbox' = inbox \o rd.events
      /\ loops' = [loops EXCEPT ![l].pc = "txReply", ![l].reply = rd.ok]
      /\ UNCHANGED <<mock, shadow, mockShadow, now, calls, last, opened, life,
                     deposited, conserving, bot, handled, sent>>

\* tx.wait() returns or throws: attemptLiquidation returns
TxReturn(l) ==
  /\ loops[l].pc = "txReply"
  /\ IF loops[l].reply
       THEN /\ bot' = [bot EXCEPT !.liquidationsExecuted = @ + 1]
            /\ loops' = [loops EXCEPT ![l].pc = "delay5", ![l].reply = FALSE]
       ELSE /\ loops' = [loops EXCEPT ![l].pc = "delay"]
            /\ UNCHANGED bot
  /\ UNCHANGED <<dex, mock, shadow, mockShadow, now, calls, last, opened, life,
                 deposited, conserving, inbox, handled, sent>>

\* a timer fires: the 5 s delay after a liquidation, the 1 s delay between
\* positions, the checkInterval sleep between scans
TimerFires(l) ==
  /\ loops[l].pc \in {"delay5", "delay", "sleep"}
  /\ loops' = [loops EXCEPT ![l] =
       IF loops[l].pc = "delay5" THEN [@ EXCEPT !.pc = "delay"]
       ELSE IF loops[l].pc = "delay" THEN Bot_scanPositions(bot, loops[l].position)
       ELSE IF bot.isRunning THEN Bot_scanPositions(bot, 0)
       ELSE [pc |-> "done", position |-> 0, reply |-> FALSE]]
  /\ UNCHANGED <<dex, mock, shadow, mockShadow, now, calls, last, opened, life,
                 deposited, conserving, bot, inbox, handled, sent>>

BotNext ==
  \/ \E o \in BotOpenInputs, b \in BracketInputs : TraderOpens(o, b)
  \/ \E pid \in opened : TraderCloses(pid)
  \/ DeliverEvent
  \/ Start
  \/ Stop
  \/ \E l \in 1..MaxLoops : HealthRead(l)
  \/ \E l \in 1..MaxLoops : HealthReturn(l)
  \/ \E l \in 1..MaxLoops : MineLiquidate(l)
  \/ \E l \in 1..MaxLoops : TxReturn(l)
  \/ \E l \in 1..MaxLoops : TimerFires(l)

BotSpec == Init /\ [][BotNext]_vars

\* -------------------------------------------------------------- properties
DexPos(key) == PosAt(dex.positions, key[1], key[2])

LastKey == <<last.trader, DexId(last.pid)>>

Terminations(key) == LifeOf(key).credits + LifeOf(key).liquidations

ClosingOps == {"closePosition", "liquidate", "executeStopLossTakeProfit"}

\* the step is a transaction (last' is the transaction of this step)
IsCall == calls' = calls + 1

\* C1: position terminality.  A closePosition, liquidate or
\* executeStopLossTakeProfit call on a position id succeeds only if that id
\* was never closed or liquidated before, and otherwise fails with
\* "Position not open"; a second closePosition on one id never succeeds.
C1_PositionTerminality ==
  last.op \in ClosingOps =>
    IF last.dex.ok THEN Terminations(LastKey) = 1
    ELSE last.dex.err = "Position not open"

RECURSIVE LockedIn(_, _)
LockedIn(positions, keys) ==
  IF keys = {} THEN 0
  ELSE LET k == CHOOSE x \in keys : TRUE
       IN  (IF positions[k].isOpen THEN positions[k].collateral ELSE 0)
             + LockedIn(positions, keys \ {k})

Locked(a) == LockedIn(dex.positions, {k \in DOMAIN dex.positions : k[1] = a})

\* C2: collateral conservation.  While an account has only made deposit,
\* openPosition and closePosition calls and the oracle price has not changed
\* since its first call, its balance is the total it deposited minus the
\* collateral of its open positions.
C2_CollateralConservation ==
  \A a \in Accounts :
    conserving[a] => dex.encryptedBalances[a] = deposited[a] - Locked(a)

\* C3 as stated: a position that has terminated (closed or liquidated) was
\* credited back to its owner exactly once.
C3_CreditedExactlyOnce ==
  \A key \in DOMAIN dex.positions :
    ~dex.positions[key].isOpen => LifeOf(key).credits = 1

\* C3 as amended: every successful closePosition / executeStopLossTakeProfit
\* finds the position open, closes it and credits collateral + pnl (euint64
\* arithmetic) to the owner; every successful liquidate finds it open, closes
\* it and credits floor(collateral / 10) to the caller and nothing to the
\* owner; so each opening is terminated at most once, by one of the two, and
\* the owner is credited once (close, brackets) or not at all (liquidation).
C3_CreditedAtMostOnce ==
  [][IsCall =>
       LET key == <<last'.trader, DexId(last'.pid)>>
           pos == PosAt(dex.positions, key[1], key[2])
           pnl == Dex_calculatePnL(dex, key[1], key[2]).ret[1]
           reward == pos.collateral \div 10
           owner == key[1]
       IN  /\ (last'.op \in {"closePosition", "executeStopLossTakeProfit"} /\ last'.dex.ok) =>
                /\ pos.isOpen
                /\ ~PosAt(dex'.positions, key[1], key[2]).isOpen
                /\ dex'.encryptedBalances =
                     [dex.encryptedBalances EXCEPT
                        ![owner] = TFHE_add(@, TFHE_add(pos.collateral, pnl))]
           /\ (last'.op = "liquidate" /\ last'.dex.ok) =>
                /\ pos.isOpen
                /\ ~PosAt(dex'.positions, key[1], key[2]).isOpen
                /\ dex'.encryptedBalances =
                     [dex.encryptedBalances EXCEPT ![last'.sender] = TFHE_add(@, reward)]
           /\ \A k \in DOMAIN life' :
                /\ life'[k].credits + life'[k].liquidations <= life'[k].opens
                /\ PosAt(dex'.positions, k[1], k[2]).isOpen =>
                     life'[k].credits + life'[k].liquidations < life'[k].opens
    ]_vars

\* a position was liquidated by a keeper who is not its owner: the owner's
\* collateral was never credited back
C3_Witness ==
  /\ last.op = "liquidate" /\ last.dex.ok /\ last.sender # last.trader
  /\ LifeOf(LastKey) = [opens |-> 1, credits |-> 0, liquidations |-> 1]
  /\ DexPos(LastKey).collateral > 0
  /\ deposited[last.trader] = 1000
  /\ dex.encryptedBalances[last.trader] = 1000 - DexPos(LastKey).collateral
  /\ dex.encryptedBalances[last.sender] = DexPos(LastKey).collateral \div 10

\* C4: no position id is returned by two successful openPosition calls.
C4_PositionIdsUnique ==
  \A key \in DOMAIN life : life[key].opens <= 1

\* C5: no resurrection.  A position that was closed or liquidated is not open.
C5_NoResurrection ==
  \A key \in DOMAIN dex.positions :
    Terminations(key) >= 1 => ~dex.positions[key].isOpen

C7_LiquidateOnlyUndercollateralized ==
  [][(IsCall /\ last'.op = "liquidate" /\ last'.dex.ok) =>
       Dex_checkLiquidation(dex, last'.trader, DexId(last'.pid)).ret[1]
    ]_vars

\* what an observer of the chain sees of a ledger: every plaintext field,
\* and which records exist; no ciphertext
Public(st) ==
  [admin |-> st.admin,
   initialized |-> st.initialized,
   userPositionIds |-> st.userPositionIds,
   positions |-> [k \in DOMAIN st.positions |->
                    [leverage |-> st.positions[k].leverage,
                     isLong |-> st.positions[k].isLong,
                     timestamp |-> st.positions[k].timestamp,
                     isOpen |-> st.positions[k].isOpen]],
   orderBook |-> [i \in DOMAIN st.orderBook |->
                    [trader |-> st.orderBook[i].trader,
                     isLong |-> st.orderBook[i].isLong,
                     isFilled |-> st.orderBook[i].isFilled,
                     timestamp |-> st.orderBook[i].timestamp]]]

Observed(st) ==
  [isOpen |-> [a \in Accounts |->
                 [i \in DOMAIN st.userPositionIds[a] |->
                    PosAt(st.positions, a, st.userPositionIds[a][i]).isOpen]],
   isFilled |-> [i \in DOMAIN st.orderBook |-> st.orderBook[i].isFilled]]

C9_OpenPositionEffect ==
  [][IsCall =>
       /\ (last'.op = "openPosition" /\ last'.dex.ok) =>
            LET a == last'.sender
                p == dex.encryptedOraclePrice
                c == (last'.pid[3].v * p) \div last'.args[1]
                pos == PosAt(dex'.positions, a, last'.dex.ret[1])
            IN  /\ dex'.encryptedBalances[a] = dex.encryptedBalances[a] - c
                /\ pos.collateral = c
                /\ pos.entryPrice = p
                /\ pos.isOpen
       /\ last'.op = "updateOraclePrice" => dex'.positions = dex.positions
    ]_vars

\* C10: a successful closePosition credits the owner with collateral + pnl,
\* pnl = (oraclePrice - entryPrice) * size for a long position and
\* (entryPrice - oraclePrice) * size for a short one, losses included;
\* calculatePnL returns that pnl (as an euint64) and changes nothing.
SignedPnL(pos, price) ==
  IF pos.isLong THEN (price - pos.entryPrice) * pos.size
  ELSE (pos.entryPrice - price) * pos.size

C10_ClosePositionCredit ==
  [][(IsCall /\ last'.op = "closePosition" /\ last'.dex.ok) =>
       LET a == last'.sender
           id == DexId(last'.pid)
           pos == PosAt(dex.positions, a, id)
           pnl == SignedPnL(pos, dex.encryptedOraclePrice)
           view == Dex_calculatePnL(dex, a, id)
       IN  /\ dex'.encryptedBalances[a] = dex.encryptedBalances[a] + pos.collateral + pnl
           /\ view.ok /\ view.st = dex
           /\ view.ret[1] = pnl % Modulus
    ]_vars

\* the unfilled orders of a book on the side opposite to isLong (1-based)
Counterparts(orderBook, isLong) ==
  {i \in DOMAIN orderBook : ~orderBook[i].isFilled /\ orderBook[i].isLong # isLong}

Lowest(S) == CHOOSE i \in S : \A j \in S : i <= j

MatchedPairs(events) ==
  {<<events[k][2] + 1, events[k][3] + 1>> :
     k \in {j \in DOMAIN events : events[j][1] = "OrderMatched"}}

\* C12: price-compatible matching.  Two orders are filled against each other
\* only when the buy order's price is at least the sell order's price.
C12_PriceCompatibleMatching ==
  last.op = "placeOrder" =>
    \A pair \in MatchedPairs(last.dex.events) :
      LET a == dex.orderBook[pair[1]]
          b == dex.orderBook[pair[2]]
          buy == IF a.isLong THEN a ELSE b
          sell == IF a.isLong THEN b ELSE a
      IN  buy.price >= sell.price

\* C13: the order book is append-only.  A placeOrder call succeeds, returns
\* the previous size as the new order's index and increases getOrderBookSize
\* by one; no other step changes the size; filled orders stay in the book.
\* Stated of both contracts.
C13_OrderBookAppendOnly ==
  [][IF IsCall /\ last'.op = "placeOrder"
       THEN /\ last'.dex.ok /\ last'.dex.ret = <<Dex_getOrderBookSize(dex)>>
            /\ Dex_getOrderBookSize(dex') = Dex_getOrderBookSize(dex) + 1
            /\ last'.mock.ok /\ last'.mock.ret = <<Mock_getOrderBookSize(mock)>>
            /\ Mock_getOrderBookSize(mock') = Mock_getOrderBookSize(mock) + 1
       ELSE /\ Dex_getOrderBookSize(dex') = Dex_getOrderBookSize(dex)
            /\ Mock_getOrderBookSize(mock') = Mock_getOrderBookSize(mock)
    ]_vars

\* two orders were filled against each other and are still counted after a
\* later call that is not a placeOrder
C13_Witness ==
  /\ last.op = "updateOraclePrice" /\ last.dex.ok
  /\ Dex_getOrderBookSize(dex) = 2
  /\ dex.orderBook[1].isFilled /\ dex.orderBook[2].isFilled
  /\ Mock_getOrderBookSize(mock) = 2

\* the orders of a book that stay filled in the next book
StaysFilled(old, new) ==
  \A i \in DOMAIN old : old[i].isFilled => (i \in DOMAIN new /\ new[i].isFilled)

\* C14: in both contracts an order that is filled stays filled in every
\* later state, and the resting order a placeOrder fills the new order
\* against was unfilled before the call.
C14_FilledIsFinal ==
  [][/\ StaysFilled(dex.orderBook, dex'.orderBook)
     /\ StaysFilled(mock.orderBook, mock'.orderBook)
     /\ (IsCall /\ last'.op = "placeOrder") =>
          /\ \A pair \in MatchedPairs(last'.dex.events) :
               pair[2] \in DOMAIN dex.orderBook /\ ~dex.orderBook[pair[2]].isFilled
          /\ \A pair \in MatchedPairs(last'.mock.events) :
               pair[2] \in DOMAIN mock.orderBook /\ ~mock.orderBook[pair[2]].isFilled
    ]_vars

\* a sell order has just been placed while the only buy order of the book was
\* already filled: the buy order is not selected again, the new order rests
C14_Witness ==
  /\ last.op = "placeOrder" /\ last.dex.ok
  /\ Len(dex.orderBook) = 3
  /\ dex.orderBook[1].isLong /\ dex.orderBook[1].isFilled
  /\ ~dex.orderBook[2].isLong /\ dex.orderBook[2].isFilled
  /\ ~dex.orderBook[3].isLong /\ ~dex.orderBook[3].isFilled
  /\ MatchedPairs(last.dex.events) = {}

\* C15: the oracle price changes only through updateOraclePrice called by
\* the admin, who is the deployer.  A call by another account fails with
\* "Only admin" and changes nothing; the admin's call sets the price to the
\* given value; no other step changes the price.  Stated of both contracts.
C15_OnlyAdminSetsPrice ==
  [][IF IsCall /\ last'.op = "updateOraclePrice"
       THEN IF last'.sender = Deployer
              THEN /\ last'.dex.ok /\ last'.mock.ok
                   /\ Dex_getOraclePrice(dex') = last'.args[1].v % Modulus
                   /\ Mock_getOraclePrice(mock') = last'.args[1].v
              ELSE /\ ~last'.dex.ok /\ last'.dex.err = "Only admin" /\ dex' = dex
                   /\ ~last'.mock.ok /\ last'.mock.err = "Only admin" /\ mock' = mock
       ELSE /\ Dex_getOraclePrice(dex') = Dex_getOraclePrice(dex)
            /\ Mock_getOraclePrice(mock') = Mock_getOraclePrice(mock)
    ]_vars

\* bob has just been refused, on a ledger with an open position whose price
\* the admin had changed before
C15_Witness ==
  /\ last.op = "updateOraclePrice" /\ last.sender = "bob"
  /\ ~last.dex.ok /\ last.dex.err = "Only admin"
  /\ Dex_getOraclePrice(dex) = 120
  /\ \E key \in DOMAIN dex.positions : dex.positions[key].isOpen

\* C16: updateStopLossTakeProfit called by the owner of an open position
\* overwrites its two bracket fields with the given values and changes
\* nothing else; called by anyone else, or on a position that is not open,
\* it fails with "Position not open" and changes nothing.
C16_OnlyOwnerUpdatesBrackets ==
  [][(IsCall /\ last'.op = "updateStopLossTakeProfit") =>
       LET owner == Owner(last'.pid)
           id == DexId(last'.pid)
           b == last'.args[1]
       IN  IF last'.sender = owner /\ PosAt(dex.positions, owner, id).isOpen
             THEN /\ last'.dex.ok
                  /\ dex' = [dex EXCEPT
                               !.positions[<<owner, id>>].stopLoss = b[1].v % Modulus,
                               !.positions[<<owner, id>>].takeProfit = b[2].v % Modulus]
             ELSE /\ ~last'.dex.ok /\ last'.dex.err = "Position not open"
                  /\ dex' = dex
    ]_vars

\* an account that does not own the open position has just been refused; the
\* brackets are those its owner had set
C16_Witness ==
  /\ last.op = "updateStopLossTakeProfit" /\ last.sender # Owner(last.pid)
  /\ ~last.dex.ok
  /\ LET pos == PosAt(dex.positions, Owner(last.pid), DexId(last.pid))
     IN  pos.isOpen /\ pos.stopLoss = 90 /\ pos.takeProfit = 110

\* the call either succeeded or left the ledger st, with no event
RevertsTo(r, st) == ~r.ok => (r.st = st /\ r.events = <<>>)

\* a read entry point that fails returns the ledger it was given
FailedViewsChangeNothing ==
  \A pid \in Targets \cup {NoPosition} : \A t \in Accounts :
    /\ RevertsTo(Dex_calculatePnL(dex, t, DexId(pid)), dex)
    /\ RevertsTo(Dex_checkLiquidation(dex, t, DexId(pid)), dex)
    /\ RevertsTo(Dex_checkStopLossTakeProfit(dex, t, DexId(pid)), dex)
    /\ RevertsTo(Mock_calculatePnL(mock, t, MockId(pid)), mock)
    /\ RevertsTo(Mock_checkLiquidation(mock, t, MockId(pid)), mock)

PureRead(r, again, st) == r.st = st /\ again = r

\* C18: read entry points are pure.  calculatePnL, checkLiquidation and
\* checkStopLossTakeProfit return the ledger they were given, whether they
\* succeed or fail, and asked twice in a row they give the same answer; the
\* getters (getBalance, getOraclePrice, getUserPositions, getOrderBookSize,
\* positions) are functions of the ledger and answer the same after any of
\* these reads.  Stated of both contracts.
C18_ReadsArePure ==
  \A pid \in Targets \cup {NoPosition} : \A t \in Accounts :
    LET id == DexId(pid)
        mid == MockId(pid)
        r1 == Dex_calculatePnL(dex, t, id)
        r2 == Dex_checkLiquidation(dex, t, id)
        r3 == Dex_checkStopLossTakeProfit(dex, t, id)
        m1 == Mock_calculatePnL(mock, t, mid)
        m2 == Mock_checkLiquidation(mock, t, mid)
    IN  /\ PureRead(r1, Dex_calculatePnL(r1.st, t, id), dex)
        /\ PureRead(r2, Dex_checkLiquidation(r2.st, t, id), dex)
        /\ PureRead(r3, Dex_checkStopLossTakeProfit(r3.st, t, id), dex)
        /\ PureRead(m1, Mock_calculatePnL(m1.st, t, mid), mock)
        /\ PureRead(m2, Mock_checkLiquidation(m2.st, t, mid), mock)
        /\ Dex_getBalance(r1.st, t) = Dex_getBalance(dex, t)
        /\ Dex_getOraclePrice(r2.st) = Dex_getOraclePrice(dex)
        /\ Dex_getUserPositions(r3.st, t) = Dex_getUserPositions(dex, t)
        /\ Dex_getOrderBookSize(r1.st) = Dex_getOrderBookSize(dex)
        /\ PosAt(r1.st.positions, t, id) = PosAt(dex.positions, t, id)

\* an open position with a profit: calculatePnL and the two checks succeed
\* on it and return values
C18_Witness ==
  \E pid \in opened :
    LET t == Owner(pid)
        id == DexId(pid)
    IN  /\ PosAt(dex.positions, t, id).isOpen
        /\ Dex_calculatePnL(dex, t, id).ok
        /\ Dex_calculatePnL(dex, t, id).ret = <<200>>
        /\ Dex_checkLiquidation(dex, t, id).ret = <<FALSE>>
        /\ Dex_checkStopLossTakeProfit(dex, t, id).ok

\* C19: a bracket of zero is disabled.  For every open position, if its
\* stopLoss is 0 checkStopLossTakeProfit does not report the stop-loss as
\* triggered, and if its takeProfit is 0 it does not report the take-profit
\* as triggered.
C19_ZeroBracketDisabled ==
  \A key \in DOMAIN dex.positions :
    dex.positions[key].isOpen =>
      LET r == Dex_checkStopLossTakeProfit(dex, key[1], key[2])
      IN  /\ r.ok
          /\ dex.positions[key].stopLoss = 0 => ~r.ret[1]
          /\ dex.positions[key].takeProfit = 0 => ~r.ret[2]

\* C20: executeStopLossTakeProfit acts on the trigger condition.  A call that
\* closes a position finds, at the oracle price of the call, the position's
\* stop-loss or take-profit triggered; a call on an open position whose
\* brackets are not triggered leaves the position open.
Triggered(st, trader, positionId) ==
  LET r == Dex_checkStopLossTakeProfit(st, trader, positionId)
  IN  r.ok /\ (r.ret[1] \/ r.ret[2])

C20_ExecuteOnlyWhenTriggered ==
  [][(IsCall /\ last'.op = "executeStopLossTakeProfit") =>
       LET id == DexId(last'.pid)
           before == PosAt(dex.positions, last'.trader, id)
           after == PosAt(dex'.positions, last'.trader, id)
       IN  (before.isOpen /\ ~Triggered(dex, last'.trader, id)) => after.isOpen
    ]_vars

\* C21: deposit(amount) by account a always succeeds, raises a's balance by
\* exactly amount, leaves every other balance, the positions, the order book
\* and the oracle price as they were, and emits BalanceDeposited(a, 0); in
\* the FHE contract and in the mock.
C21_DepositEffect ==
  [][(IsCall /\ last'.op = "deposit") =>
       LET a == last'.sender
           amount == last'.args[1].v
       IN  /\ last'.dex.ok /\ last'.mock.ok
           /\ dex'.encryptedBalances[a] = dex.encryptedBalances[a] + amount
           /\ mock'.balances[a] = mock.balances[a] + amount
           /\ \A b \in Accounts \ {a} :
                /\ dex'.encryptedBalances[b] = dex.encryptedBalances[b]
                /\ mock'.balances[b] = mock.balances[b]
           /\ dex'.positions = dex.positions /\ mock'.positions = mock.positions
           /\ dex'.userPositionIds = dex.userPositionIds
           /\ mock'.userPositionIds = mock.userPositionIds
           /\ dex'.orderBook = dex.orderBook /\ mock'.orderBook = mock.orderBook
           /\ dex'.encryptedOraclePrice = dex.encryptedOraclePrice
           /\ mock'.oraclePrice = mock.oraclePrice
           /\ last'.dex.events = << <<"BalanceDeposited", a, 0>> >>
           /\ last'.mock.events = << <<"BalanceDeposited", a, 0>> >>
    ]_vars

\* C22: openPosition fails when the caller's balance is less than the
\* required collateral floor(size * oraclePrice / leverage): no position is
\* created and the balance is unchanged (it does not wrap around); in the
\* FHE contract and in the mock.
Underfunded(balance, size, price, leverage) == balance < (size * price) \div leverage

C22_OpenNeedsCollateral ==
  [][(IsCall /\ last'.op = "openPosition") =>
       LET a == last'.sender
           size == last'.pid[3].v
           leverage == last'.args[1]
       IN  /\ Underfunded(dex.encryptedBalances[a], size, dex.encryptedOraclePrice, leverage)
                => (~last'.dex.ok /\ dex' = dex)
           /\ Underfunded(mock.balances[a], size, mock.oraclePrice, leverage)
                => (~last'.mock.ok /\ mock' = mock)
    ]_vars

\* C23: immediately after deployment (before any transaction) the admin is
\* the deployer, the order book size is 0, getUserPositions is empty for
\* every account, every balance is zero and unset, no position is stored, and
\* the oracle price is 50000 * 100 (non-zero) with liquidationThreshold 500
\* and fundingRate 10; in the FHE contract and in the mock.
C23_InitialState ==
  calls = 0 =>
    /\ dex.admin = Deployer /\ mock.admin = Deployer
    /\ Dex_getOrderBookSize(dex) = 0 /\ Mock_getOrderBookSize(mock) = 0
    /\ \A a \in Accounts :
         /\ Dex_getUserPositions(dex, a) = <<>>
         /\ Mock_getUserPositions(mock, a) = <<>>
         /\ Dex_getBalance(dex, a) = 0 /\ a \notin dex.initialized
         /\ Mock_getBalance(mock, a) = 0
    /\ DOMAIN dex.positions = {} /\ DOMAIN mock.positions = {}
    /\ Dex_getOraclePrice(dex) = 5000000 /\ Dex_getOraclePrice(dex) # 0
    /\ Mock_getOraclePrice(mock) = 5000000
    /\ dex.liquidationThreshold = 500 /\ mock.liquidationThreshold = 500
    /\ dex.fundingRate = 10 /\ mock.fundingRate = 10

C23_Witness == calls = 0 /\ last.op = "constructor" /\ last.sender = dex.admin /\ now = MaxTime

\* C24: the mock simulates the FHE contract.  Along every sequence of deposit,
\* openPosition (brackets 0), closePosition, placeOrder, liquidate and
\* updateOraclePrice calls sent to both with the same callers, timestamps and
\* plaintext values, each call succeeds in the mock exactly when it succeeds
\* in the FHE contract, and afterwards the balances, every position's isOpen,
\* collateral and entryPrice, the isFilled flags and the order book size agree.
SameLedger(d, m) ==
  /\ \A a \in Accounts : d.encryptedBalances[a] = m.balances[a]
  /\ \A pid \in opened :
       LET dp == PosAt(d.positions, Owner(pid), DexId(pid))
           mp == PosAt(m.positions, Owner(pid), MockId(pid))
       IN  /\ dp.isOpen = mp.isOpen
           /\ dp.collateral = mp.collateral
           /\ dp.entryPrice = mp.entryPrice
  /\ Len(d.orderBook) = Len(m.orderBook)
  /\ \A i \in DOMAIN d.orderBook :
       i \in DOMAIN m.orderBook => d.orderBook[i].isFilled = m.orderBook[i].isFilled

C24_MockSimulatesDex ==
  /\ last.dex.ok = last.mock.ok
  /\ SameLedger(dex, mock)

\* C25: the Positions tab shows only open positions.  After any sequence of
\* calls followed by loadPositions, every position rendered for the user has
\* isOpen = true, and the 'No open positions' empty state is shown exactly
\* when the user has no open position.
HasOpenPosition(st, user) ==
  \E key \in DOMAIN st.positions : key[1] = user /\ st.positions[key].isOpen

C25_PositionsTabShowsOpen ==
  \A user \in Accounts :
    LET tab == App_loadPositions(dex, user)
    IN  /\ \A i \in DOMAIN tab.items : PosAt(dex.positions, user, tab.items[i]).isOpen
        /\ tab.emptyState <=> ~HasOpenPosition(dex, user)

C27_ExecuteSettlesToOwner ==
  [][(IsCall /\ last'.op = "executeStopLossTakeProfit") =>
       LET caller == last'.sender
           trader == last'.trader
           id == DexId(last'.pid)
           pos == PosAt(dex.positions, trader, id)
           byOwner == Dex_closePosition(dex, trader, id)
       IN  pos.isOpen =>
             /\ last'.dex.ok
             /\ ~PosAt(dex'.positions, trader, id).isOpen
             /\ dex'.encryptedBalances[trader] =
                  dex.encryptedBalances[trader] + pos.collateral
                    + SignedPnL(pos, dex.encryptedOraclePrice)
             /\ dex'.encryptedBalances[trader] = byOwner.st.encryptedBalances[trader]
             /\ caller # trader =>
                  dex'.encryptedBalances[caller] = dex.encryptedBalances[caller]
    ]_vars

\* C28: checkLiquidation on an open position returns true exactly when
\* (collateral + pnl) * 10000 < (size * oraclePrice) * liquidationThreshold,
\* with liquidationThreshold = 500 and pnl the profit or loss of the position
\* at the current oracle price; in the FHE contract and in the mock.  Stated
\* for prices up to MaxSmallPrice, where no product reaches 2^EuintBits;
\* 10000 / 500 = 20 is cancelled on both sides.
MaxSmallPrice == 120

Undercollateralized(pos, price) ==
  (pos.collateral + SignedPnL(pos, price)) * 20 < pos.size * price

C28_LiquidationPredicate ==
  \A pid \in opened :
    LET t == Owner(pid)
        dp == PosAt(dex.positions, t, DexId(pid))
        mp == PosAt(mock.positions, t, MockId(pid))
    IN  /\ (dp.isOpen /\ dp.entryPrice <= MaxSmallPrice
              /\ dex.encryptedOraclePrice <= MaxSmallPrice) =>
             Dex_checkLiquidation(dex, t, DexId(pid)).ret
               = <<Undercollateralized(dp, dex.encryptedOraclePrice)>>
        /\ (mp.isOpen /\ mp.entryPrice <= MaxSmallPrice
              /\ mock.oraclePrice <= MaxSmallPrice) =>
             Mock_checkLiquidation(mock, t, MockId(pid)).ret
               = <<Undercollateralized(mp, mock.oraclePrice)>>

\* C29: a successful liquidate(trader, positionId) sets the position's isOpen
\* to false and credits the caller's balance with exactly
\* floor(collateral / 10); when the caller is not the owner, the owner's
\* balance and every third account's balance are unchanged; in the FHE
\* contract and in the mock.
C29_LiquidationReward ==
  [][(IsCall /\ last'.op = "liquidate") =>
       LET caller == last'.sender
           trader == last'.trader
           dp == PosAt(dex.positions, trader, DexId(last'.pid))
           mp == PosAt(mock.positions, trader, MockId(last'.pid))
       IN  /\ last'.dex.ok =>
                /\ ~PosAt(dex'.positions, trader, DexId(last'.pid)).isOpen
                /\ dex'.encryptedBalances[caller] =
                     dex.encryptedBalances[caller] + (dp.collateral \div 10)
                /\ \A a \in Accounts \ {caller} :
                     dex'.encryptedBalances[a] = dex.encryptedBalances[a]
           /\ last'.mock.ok =>
                /\ ~PosAt(mock'.positions, trader, MockId(last'.pid)).isOpen
                /\ mock'.balances[caller] = mock.balances[caller] + (mp.collateral \div 10)
                /\ \A a \in Accounts \ {caller} : mock'.balances[a] = mock.balances[a]
    ]_vars

\* C30: a position's isOpen flag goes from true to false only by a successful
\* closePosition sent by its owner, liquidate or executeStopLossTakeProfit on
\* that position (closePosition or liquidate in the mock); deposit,
\* openPosition, updateStopLossTakeProfit, placeOrder with its matching pass,
\* updateOraclePrice and a new block close no position.
Closes(before, after, key) ==
  /\ key \in DOMAIN before.positions
  /\ before.positions[key].isOpen
  /\ ~PosAt(after.positions, key[1], key[2]).isOpen

ClosedByCall(call, outcome, key, id, ops) ==
  /\ call.op \in ops
  /\ outcome.ok
  /\ key = <<call.trader, id>>
  /\ call.op = "closePosition" => call.sender = key[1]

C30_OnlyClosingCallsClose ==
  [][/\ \A key \in DOMAIN dex.positions :
          Closes(dex, dex', key) =>
            IsCall /\ ClosedByCall(last', last'.dex, key, DexId(last'.pid), ClosingOps)
     /\ \A key \in DOMAIN mock.positions :
          Closes(mock, mock', key) =>
            /\ IsCall
            /\ ClosedByCall(last', last'.mock, key, MockId(last'.pid),
                            {"closePosition", "liquidate"})
    ]_vars

C30_Witness ==
  /\ last.op = "closePosition" /\ last.dex.ok /\ last.mock.ok
  /\ last.sender = Owner(last.pid)
  /\ ~PosAt(dex.positions, last.sender, DexId(last.pid)).isOpen
  /\ ~PosAt(mock.positions, last.sender, MockId(last.pid)).isOpen
  /\ last.dex.events = << <<"PositionClosed", last.sender, DexId(last.pid)>> >>

\* C31: liquidationThreshold, fundingRate and admin keep their
\* construction-time values (500, 10, the deployer) in every reachable state,
\* whatever is called and by whom, the admin included; in the FHE contract
\* and in the mock.
C31_ParametersFixed ==
  /\ dex.liquidationThreshold = Dex_constructor(Deployer).liquidationThreshold
  /\ dex.liquidationThreshold = 500
  /\ dex.fundingRate = 10
  /\ dex.admin = Deployer
  /\ mock.liquidationThreshold = 500
  /\ mock.fundingRate = 10
  /\ mock.admin = Deployer

C31_Witness ==
  /\ calls = MaxCalls
  /\ last.op = "updateOraclePrice" /\ last.sender = dex.admin /\ last.dex.ok
  /\ dex.encryptedOraclePrice = 80 /\ mock.oraclePrice = 80
  /\ dex.orderBook # <<>> /\ opened # {}

\* C32: every transition of a position from open to not open emits exactly
\* one terminal event that names the path: closePosition and
\* executeStopLossTakeProfit emit PositionClosed(trader, id) and no
\* LiquidationTriggered, liquidate emits LiquidationTriggered(trader, id) and
\* no PositionClosed; failed calls emit nothing.
TerminalEvents(events) ==
  SelectSeq(events, LAMBDA e : e[1] \in {"PositionClosed", "LiquidationTriggered"})

OneTerminalEventPerTransition ==
  [][IsCall =>
       LET key == <<last'.trader, DexId(last'.pid)>>
           emitted == TerminalEvents(last'.dex.events)
       IN  /\ ~last'.dex.ok => last'.dex.events = <<>>
           /\ \A k \in DOMAIN dex.positions : Closes(dex, dex', k) => k = key
           /\ IF Closes(dex, dex', key)
                THEN emitted = IF last'.op = "liquidate"
                                 THEN << <<"LiquidationTriggered", key[1], key[2]>> >>
                                 ELSE << <<"PositionClosed", key[1], key[2]>> >>
                ELSE emitted = <<>>
    ]_vars

\* ... so that for each position at most one terminal event is ever emitted.
C32_OneTerminalEvent ==
  /\ OneTerminalEventPerTransition
  /\ [](\A key \in DOMAIN life : Terminations(key) <= 1)

\* C33: in every reachable order book the number of filled long orders
\* equals the number of filled short orders, and each placeOrder changes the
\* isFilled flag of no order or of exactly two orders of opposite sides, one
\* of them the order just placed; in the FHE contract and in the mock.
Filled(orderBook, isLong) ==
  {i \in DOMAIN orderBook : orderBook[i].isFilled /\ orderBook[i].isLong = isLong}

FilledInPairs(orderBook) ==
  Cardinality(Filled(orderBook, TRUE)) = Cardinality(Filled(orderBook, FALSE))

\* the orders whose flag differs between two books, the new order counted
\* as unfilled before it was placed
Flipped(before, after) ==
  {i \in DOMAIN after :
     after[i].isFilled # (IF i \in DOMAIN before THEN before[i].isFilled ELSE FALSE)}

PairFlipped(before, after) ==
  LET flipped == Flipped(before, after)
  IN  \/ flipped = {}
      \/ /\ Cardinality(flipped) = 2
         /\ Len(after) \in flipped
         /\ \A i \in flipped : after[i].isFilled
         /\ \E i \in flipped : after[i].isLong # after[Len(after)].isLong

C33_FillsComeInPairs ==
  /\ [](FilledInPairs(dex.orderBook) /\ FilledInPairs(mock.orderBook))
  /\ [][(IsCall /\ last'.op = "placeOrder") =>
          /\ PairFlipped(dex.orderBook, dex'.orderBook)
          /\ PairFlipped(mock.orderBook, mock'.orderBook)
       ]_vars
  /\ [][(IsCall /\ last'.op # "placeOrder") =>
          (dex'.orderBook = dex.orderBook /\ mock'.orderBook = mock.orderBook)
       ]_vars

C33_Witness ==
  /\ last.op = "placeOrder"
  /\ Len(dex.orderBook) = 3
  /\ Cardinality(Filled(dex.orderBook, TRUE)) = 1
  /\ Cardinality(Filled(dex.orderBook, FALSE)) = 1
  /\ Cardinality(Filled(mock.orderBook, TRUE)) = 1
  /\ Cardinality(Filled(mock.orderBook, FALSE)) = 1
  /\ dex.orderBook[3].isFilled /\ dex.orderBook[1].isFilled /\ ~dex.orderBook[2].isFilled
  /\ Len(last.dex.events) = 2 /\ Len(last.mock.events) = 2

\* C34: in the FHE contract, after every completed placeOrder (so in every
\* state between transactions) all unfilled orders of the book are on one
\* side: there is never an unfilled long order together with an unfilled
\* short order.
Unfilled(orderBook, isLong) ==
  {i \in DOMAIN orderBook : ~orderBook[i].isFilled /\ orderBook[i].isLong = isLong}

Refused(r, st) == ~r.ok /\ r.err = "Position not open" /\ r.st = st /\ r.events = <<>>

C35_CloseOnlyOwn ==
  /\ \A pid \in opened : \A a \in Accounts \ {Owner(pid)} :
       /\ Refused(Dex_closePosition(dex, a, DexId(pid)), dex)
       /\ Refused(Mock_closePosition(mock, a, MockId(pid)), mock)
  /\ (last.op = "closePosition" /\ last.pid \in opened /\ last.sender # Owner(last.pid)) =>
       /\ ~last.dex.ok /\ last.dex.err = "Position not open"
       /\ ~last.mock.ok /\ last.mock.err = "Position not open"

C35_Witness ==
  /\ last.op = "closePosition" /\ last.pid \in opened /\ last.sender # Owner(last.pid)
  /\ ~last.dex.ok /\ ~last.mock.ok
  /\ PosAt(dex.positions, Owner(last.pid), DexId(last.pid)).isOpen
  /\ PosAt(mock.positions, Owner(last.pid), MockId(last.pid)).isOpen
  /\ mock.balances[Owner(last.pid)] = 1000 - PosAt(mock.positions, Owner(last.pid), MockId(last.pid)).collateral

\* C36: a freshly opened position is not liquidatable.  For every size >= 1,
\* oracle price >= 1 and leverage between 1 and 20, right after a successful
\* openPosition, at the same oracle price, checkLiquidation returns false for
\* the new position; in the FHE contract and in the mock.
C36_FreshNotLiquidatable ==
  last.op = "openPosition" =>
    /\ last.dex.ok =>
         Dex_checkLiquidation(dex, last.sender, last.dex.ret[1]).ret = <<FALSE>>
    /\ last.mock.ok =>
         Mock_checkLiquidation(mock, last.sender, last.mock.ret[1]).ret = <<FALSE>>

\* C37: each successful openPosition appends exactly one id, the id it
\* returns, to the caller's userPositionIds list; no other operation changes
\* any account's list, so the ids of closed and liquidated positions stay in
\* it and getUserPositions(user) never gets shorter; in the FHE contract and
\* in the mock.
AppendsOwnId(before, after, call, outcome) ==
  IF call.op = "openPosition" /\ outcome.ok
    THEN after = [before EXCEPT ![call.sender] = Append(@, outcome.ret[1])]
    ELSE after = before

C37_PositionListGrowsOnly ==
  [][/\ IsCall =>
          /\ AppendsOwnId(dex.userPositionIds, dex'.userPositionIds, last', last'.dex)
          /\ AppendsOwnId(mock.userPositionIds, mock'.userPositionIds, last', last'.mock)
     /\ ~IsCall =>
          /\ dex'.userPositionIds = dex.userPositionIds
          /\ mock'.userPositionIds = mock.userPositionIds
     /\ \A user \in Accounts :
          Len(Dex_getUserPositions(dex', user)) >= Len(Dex_getUserPositions(dex, user))
    ]_vars

C37_Witness ==
  /\ last.op \in {"liquidate", "executeStopLossTakeProfit"} /\ last.dex.ok
  /\ Len(Dex_getUserPositions(dex, last.trader)) = 2
  /\ \E i \in 1..2 :
       /\ Dex_getUserPositions(dex, last.trader)[i] = DexId(last.pid)
       /\ ~PosAt(dex.positions, last.trader, DexId(last.pid)).isOpen

ScanLoops == {l \in 1..MaxLoops : Scanning(l)}

\* C39: under any sequence of start() and stop() calls at most one start()
\* loop of the bot is inside scanPositions at a time.
C39_OneScanLoop == Cardinality(ScanLoops) <= 1

====
